---- MODULE Spec2Model ----
(***************************************************************************)
(* SimpleDataTool (src/python/simple_data_tool.py): four record            *)
(* collections loaded once and a fixed set of query methods over them.     *)
(*                                                                         *)
(* Numbers.  Counts are plain integers.  Money (estimate_cost and every    *)
(* value derived from it) is carried in units of 1/200: a cost is a        *)
(* multiple of 1/8 (25 units), which a Python float holds exactly, so the  *)
(* float sums of the code are exact, and a value rounded to 2 decimals is  *)
(* an even number of units.  round(x, 2) of CPython rounds the exact value *)
(* of the float to the nearest hundredth, ties to even.  For a quotient    *)
(* total / n with n < 5 a tie is a multiple of 1/8 and hence exact, so     *)
(* rounding the float and rounding the rational agree.                     *)
(*                                                                         *)
(* Strings (state names, languages, dates) are sequences of character      *)
(* codes, compared the way Python compares str values.                     *)
(***************************************************************************)
EXTENDS Integers, Sequences, FiniteSets, TLC

VARIABLES agent_data, claim_handler_data, claim_data, disaster_data, last, watch

vars == <<agent_data, claim_handler_data, claim_data, disaster_data, last, watch>>

data == <<agent_data, claim_handler_data, claim_data, disaster_data>>

----------------------------------------------------------------------------
(* Bounds of the model.                                                    *)

MaxMapClaims == 3
MaxMapAgents == 2
MaxCostClaims == 3
MaxOpenClaims == 3
MaxDisasters == 5
MaxLangAgents == 4
GenMaxClaims == 1
GenMaxAgents == 1

----------------------------------------------------------------------------
(* Python values held in a record field: a number, None (JSON null), or    *)
(* no such key in the record.                                              *)

None == [t |-> "None", v |-> 0]
Absent == [t |-> "absent", v |-> 0]
Num(n) == [t |-> "num", v |-> n]

(* What a query call produces: a value it returns or an exception that     *)
(* propagates to the caller.                                               *)
RNone == [kind |-> "None", num |-> 0, str |-> <<>>, map |-> <<>>, exc |-> ""]
RNum(n) == [kind |-> "num", num |-> n, str |-> <<>>, map |-> <<>>, exc |-> ""]
RStr(s) == [kind |-> "str", num |-> 0, str |-> s, map |-> <<>>, exc |-> ""]
RMap(m) == [kind |-> "map", num |-> 0, str |-> <<>>, map |-> m, exc |-> ""]
Raise(e) == [kind |-> "raise", num |-> 0, str |-> <<>>, map |-> <<>>, exc |-> e]

(* round(total / n, 2) on values in units of 1/200: to the nearest even    *)
(* number of units (whole hundredths), ties to the even hundredth.         *)
RoundDiv(total, n) ==
    LET q == total \div (2 * n)
        r == total % (2 * n)
    IN  IF r < n THEN 2 * q
        ELSE IF r > n THEN 2 * (q + 1)
        ELSE IF q % 2 = 0 THEN 2 * q ELSE 2 * (q + 1)

Round2(x) == RoundDiv(x, 1)

SeqsUpTo(S, n) == UNION {[1..k -> S] : k \in 0..n}

----------------------------------------------------------------------------
(* Strings.                                                                *)

EmptyStr == <<>>
Delaware == <<68, 101, 108, 97, 119, 97, 114, 101>>
NewJersey == <<78, 101, 119, 32, 74, 101, 114, 115, 101, 121>>
NewMexico == <<78, 101, 119, 32, 77, 101, 120, 105, 99, 111>>
Closed == <<67, 108, 111, 115, 101, 100>>
Open == <<79, 112, 101, 110>>
Spanish == <<83, 112, 97, 110, 105, 115, 104>>
French == <<70, 114, 101, 110, 99, 104>>

RECURSIVE StrLess(_, _)
StrLess(a, b) ==
    IF Len(a) = 0 THEN Len(b) > 0
    ELSE IF Len(b) = 0 THEN FALSE
    ELSE IF Head(a) # Head(b) THEN Head(a) < Head(b)
    ELSE StrLess(Tail(a), Tail(b))

----------------------------------------------------------------------------
(* A dict, in insertion order: a sequence of <<key, value>> entries.       *)

HasKey(d, k) == \E j \in DOMAIN d : d[j][1] = k

Get(d, k) == d[CHOOSE j \in DOMAIN d : d[j][1] = k][2]

Put(d, k, val) ==
    IF HasKey(d, k)
    THEN [j \in DOMAIN d |-> IF d[j][1] = k THEN <<k, val>> ELSE d[j]]
    ELSE Append(d, <<k, val>>)

Keys(d) == {d[j][1] : j \in DOMAIN d}

----------------------------------------------------------------------------
(* build_map_of_agents_to_total_claim_cost                                 *)

KeptMap == IF last.op = "build_map" THEN last.res.map ELSE <<>>

(* agent_to_total_claim_cost = {} : the map starts empty on every call.    *)
FreshMap == <<>>

RECURSIVE MapAgentsLoop(_, _, _)
MapAgentsLoop(agents, i, m) ==
    IF i > Len(agents) THEN m
    ELSE MapAgentsLoop(agents, i + 1, Put(m, Num(agents[i].id), Num(0)))

(* claim.get('agent_assigned_id', None) and claim.get('estimate_cost', 0) *)
GetAgentId(claim) ==
    IF claim.agent_assigned_id.t = "absent" THEN None ELSE claim.agent_assigned_id

GetCost(claim) ==
    IF claim.estimate_cost.t = "absent" THEN Num(0) ELSE claim.estimate_cost

(* agent_to_total_claim_cost[agent_id] = None *)
SetNoneKnownOnly(m, agent_id) == IF HasKey(m, agent_id) THEN Put(m, agent_id, None) ELSE m

SetNone(m, agent_id) == Put(m, agent_id, None)

(* One pass of the loop over the claims; m is the map or "TypeError" once  *)
(* None += cost has been attempted.                                        *)
RECURSIVE MapClaimsLoop(_, _, _)
MapClaimsLoop(claims, i, m) ==
    IF i > Len(claims) THEN [ok |-> TRUE, map |-> m]
    ELSE LET agent_id == GetAgentId(claims[i])
             cost == GetCost(claims[i])
         IN  IF HasKey(m, agent_id) /\ cost.t # "None"
             THEN IF Get(m, agent_id).t = "None"
                  THEN [ok |-> FALSE, map |-> m]
                  ELSE MapClaimsLoop(claims, i + 1,
                           Put(m, agent_id, Num(Get(m, agent_id).v + cost.v)))
             ELSE MapClaimsLoop(claims, i + 1, SetNone(m, agent_id))

MapNoRound(m) == m

MapRound(m) ==
    [j \in DOMAIN m |->
        IF m[j][2].t # "None" THEN <<m[j][1], Num(Round2(m[j][2].v))>> ELSE m[j]]

BuildMapResult(agents, claims) ==
    LET looped == MapClaimsLoop(claims, 1, MapAgentsLoop(agents, 1, FreshMap))
    IN  IF looped.ok THEN RMap(MapRound(looped.map)) ELSE Raise("TypeError")

----------------------------------------------------------------------------
(* get_num_closed_claims, get_num_claims_for_claim_handler_id,             *)
(* get_num_disasters_for_state                                             *)

RECURSIVE NumClosedLoop(_, _, _)
NumClosedLoop(claims, i, num_closed_claims) ==
    IF i > Len(claims) THEN num_closed_claims
    ELSE NumClosedLoop(claims, i + 1,
             IF claims[i].status = Closed THEN num_closed_claims + 1
             ELSE num_closed_claims)

NumClosedClaims(claims) == NumClosedLoop(claims, 1, 0)

RECURSIVE NumClaimsLoop(_, _, _, _)
NumClaimsLoop(claims, i, claim_handler_id, num_claims) ==
    IF i > Len(claims) THEN num_claims
    ELSE NumClaimsLoop(claims, i + 1, claim_handler_id,
             IF claims[i].claim_handler_assigned_id = claim_handler_id
             THEN num_claims + 1 ELSE num_claims)

NumClaimsForClaimHandlerId(claims, claim_handler_id) ==
    NumClaimsLoop(claims, 1, claim_handler_id, 0)

RECURSIVE NumDisastersLoop(_, _, _, _)
NumDisastersLoop(disasters, i, state, stateDisasters) ==
    IF i > Len(disasters) THEN stateDisasters
    ELSE NumDisastersLoop(disasters, i + 1, state,
             IF disasters[i].state = state THEN stateDisasters + 1
             ELSE stateDisasters)

NumDisastersForState(disasters, state) == NumDisastersLoop(disasters, 1, state, 0)

----------------------------------------------------------------------------
(* get_total_claim_cost_for_disaster                                       *)

(* claim["estimate_cost"] : KeyError without the key; adding None to a     *)
(* float is a TypeError.                                                   *)
RECURSIVE TotalCostLoop(_, _, _, _)
TotalCostLoop(claims, i, disaster_id, totalDisasterCost) ==
    IF i > Len(claims) THEN RNum(totalDisasterCost)
    ELSE IF claims[i].disaster_id # disaster_id
         THEN TotalCostLoop(claims, i + 1, disaster_id, totalDisasterCost)
    ELSE IF claims[i].estimate_cost.t = "absent" THEN Raise("KeyError")
    ELSE IF claims[i].estimate_cost.t = "None" THEN Raise("TypeError")
    ELSE TotalCostLoop(claims, i + 1, disaster_id,
             totalDisasterCost + claims[i].estimate_cost.v)

TotalClaimCostForDisaster(claims, disaster_id) ==
    LET total == TotalCostLoop(claims, 1, disaster_id, 0)
    IN  IF total.kind = "raise" THEN total
        ELSE IF total.num = 0 THEN RNone
        ELSE total

----------------------------------------------------------------------------
(* get_average_claim_cost_for_claim_handler                                *)

AverageNoRound(total_claim_cost, num_claims) == RNum(total_claim_cost \div num_claims)

(* round((total_claim_cost / num_claims), 2) *)
AverageCost(total_claim_cost, num_claims) == RNum(RoundDiv(total_claim_cost, num_claims))

RECURSIVE HandlerCostLoop(_, _, _, _, _)
HandlerCostLoop(claims, i, claim_handler_id, total_claim_cost, num_claims) ==
    IF i > Len(claims) THEN AverageCost(total_claim_cost, num_claims)
    ELSE IF claims[i].claim_handler_assigned_id # claim_handler_id
         THEN HandlerCostLoop(claims, i + 1, claim_handler_id, total_claim_cost, num_claims)
    ELSE IF claims[i].estimate_cost.t = "absent" THEN Raise("KeyError")
    ELSE IF claims[i].estimate_cost.t = "None" THEN Raise("TypeError")
    ELSE HandlerCostLoop(claims, i + 1, claim_handler_id,
             total_claim_cost + claims[i].estimate_cost.v, num_claims + 1)

AverageClaimCostForClaimHandler(claims, claim_handler_id) ==
    IF NumClaimsForClaimHandlerId(claims, claim_handler_id) = 0 THEN RNone
    ELSE HandlerCostLoop(claims, 1, claim_handler_id, 0, 0)

----------------------------------------------------------------------------
(* get_state_with_most_disasters, get_state_with_least_disasters           *)

Incr(d, k) == IF HasKey(d, k) THEN Put(d, k, Get(d, k) + 1) ELSE Put(d, k, 1)

RECURSIVE StateDisasterCount(_, _, _)
StateDisasterCount(disasters, i, state_disaster_count) ==
    IF i > Len(disasters) THEN state_disaster_count
    ELSE StateDisasterCount(disasters, i + 1,
             Incr(state_disaster_count, disasters[i].state))

Values(d) == {d[j][2] : j \in DOMAIN d}

Max(S) == CHOOSE v \in S : \A w \in S : w <= v

Min(S) == CHOOSE v \in S : \A w \in S : v <= w

(* [key for key, count in d.items() if count == n] *)
KeysWithCount(d, n) ==
    LET hits == SelectSeq(d, LAMBDA e : e[2] = n)
    IN  [j \in DOMAIN hits |-> hits[j][1]]

RECURSIVE Insert(_, _)
Insert(x, t) ==
    IF t = <<>> THEN <<x>>
    ELSE IF StrLess(x, Head(t)) THEN <<x>> \o t
    ELSE <<Head(t)>> \o Insert(x, Tail(t))

RECURSIVE Sorted(_)
Sorted(s) == IF s = <<>> THEN <<>> ELSE Insert(Head(s), Sorted(Tail(s)))

UnsortedFirst(states) == states[1]

(* sorted(states)[0] *)
SortedFirst(states) == Sorted(states)[1]

StateWithMostDisasters(disasters) ==
    LET state_disaster_count == StateDisasterCount(disasters, 1, <<>>)
    IN  IF state_disaster_count = <<>> THEN Raise("ValueError")
        ELSE RStr(SortedFirst(KeysWithCount(state_disaster_count,
                                            Max(Values(state_disaster_count)))))

StateWithLeastDisasters(disasters) ==
    LET state_disaster_count == StateDisasterCount(disasters, 1, <<>>)
    IN  IF state_disaster_count = <<>> THEN Raise("ValueError")
        ELSE RStr(SortedFirst(KeysWithCount(state_disaster_count,
                                            Min(Values(state_disaster_count)))))

----------------------------------------------------------------------------
(* get_most_spoken_agent_language_by_state                                 *)

RECURSIVE LanguageCount(_, _, _, _)
LanguageCount(agents, i, state, language_count) ==
    IF i > Len(agents) THEN language_count
    ELSE LanguageCount(agents, i + 1, state,
             IF agents[i].state = state
             THEN Incr(language_count, agents[i].secondary_language)
             ELSE language_count)

LastOf(most_spoken_languages) == most_spoken_languages[Len(most_spoken_languages)]

(* most_spoken_languages[0] *)
FirstOf(most_spoken_languages) == most_spoken_languages[1]

MostSpokenAgentLanguageByState(agents, state) ==
    LET language_count == LanguageCount(agents, 1, state, <<>>)
    IN  IF language_count = <<>> THEN RStr(EmptyStr)
        ELSE RStr(FirstOf(KeysWithCount(language_count, Max(Values(language_count)))))

----------------------------------------------------------------------------
(* get_num_of_open_claims_for_agent_and_severity                           *)

(* CPython keeps one object for each of the integers -5..256; any other    *)
(* int is an object of its own.                                            *)
SmallIntMin == -5
SmallIntMax == 256

(* claim["agent_assigned_id"] is agent_id : the field of claim i and the   *)
(* argument are the same object.  obj tells which object the caller        *)
(* passes: i when it is the one held by claim i, 0 for any other.          *)
Is(claims, i, agent_id, obj) ==
    /\ claims[i].agent_assigned_id = Num(agent_id)
    /\ \/ SmallIntMin <= agent_id /\ agent_id <= SmallIntMax
       \/ obj = i

RECURSIVE OpenClaimsLoop(_, _, _, _, _, _)
OpenClaimsLoop(claims, i, agent_id, obj, min_severity_rating, num_claims) ==
    IF i > Len(claims) THEN RNum(num_claims)
    ELSE IF claims[i].agent_assigned_id.t = "absent" THEN Raise("KeyError")
    ELSE OpenClaimsLoop(claims, i + 1, agent_id, obj, min_severity_rating,
             IF /\ Is(claims, i, agent_id, obj)
                /\ claims[i].severity_rating >= min_severity_rating
                /\ claims[i].status # Closed
             THEN num_claims + 1 ELSE num_claims)

NumOfOpenClaimsForAgentAndSeverity(claims, agent_id, obj, min_severity_rating) ==
    IF min_severity_rating < 1 \/ min_severity_rating > 10 THEN RNum(-1)
    ELSE LET counted == OpenClaimsLoop(claims, 1, agent_id, obj, min_severity_rating, 0)
         IN  IF counted.kind = "raise" THEN counted
             ELSE IF counted.num = 0 THEN RNone
             ELSE counted

----------------------------------------------------------------------------
(* get_num_disasters_declared_after_end_date                               *)

RECURSIVE DeclaredAfterEndLoop(_, _, _)
DeclaredAfterEndLoop(disasters, i, count) ==
    IF i > Len(disasters) THEN count
    ELSE DeclaredAfterEndLoop(disasters, i + 1,
             IF StrLess(disasters[i].end_date, disasters[i].declared_date)
             THEN count + 1 ELSE count)

NumDisastersDeclaredAfterEndDate(disasters) == DeclaredAfterEndLoop(disasters, 1, 0)

(* calculate_disaster_claim_density and                                    *)
(* get_top_three_months_with_highest_num_of_claims_desc have no statement  *)
(* but a docstring or pass: the call returns None.                         *)
DisasterClaimDensity(disaster_id) == RNone

TopThreeMonths == RNone

----------------------------------------------------------------------------
(* State.                                                                  *)

NoArgs == [id |-> 0, sev |-> 0, obj |-> 0, state |-> <<>>]

Call(op, args, res) == [op |-> op, args |-> args, res |-> res]

NoCall == Call("init", NoArgs, RNone)

Watch(call, again) == [call |-> call, again |-> again]

Unwatched == Watch(Call("off", NoArgs, RNone), FALSE)

Armed == Watch(NoCall, FALSE)

(* Every query leaves the four collections as they are.  last and watch    *)
(* are history variables: last is the latest call with what it produced,   *)
(* and watch, where it starts as Armed, keeps any one earlier call of the  *)
(* run, and whether the same query has been called with the same arguments *)
(* since.                                                                  *)
Return(op, args, res) ==
    /\ last' = Call(op, args, res)
    /\ \/ watch.call.op = "init" /\ watch' = Watch(Call(op, args, res), FALSE)
       \/ watch' = [watch EXCEPT
                       !.again = @ \/ (watch.call.op = op /\ watch.call.args = args)]
    /\ UNCHANGED data

Args(id, sev, obj, state) == [id |-> id, sev |-> sev, obj |-> obj, state |-> state]

(* Arguments the callers pass. *)
ArgHandlerIds == {1, 2}
ArgDisasterIds == {1, 2}
ArgAgentIds == {1, 300}
ArgSeverities == {0, 1, 10, 11}
ArgStates == {Delaware, NewJersey, NewMexico}

(* The objects an int argument can be: one no claim holds (0), or the one  *)
(* held in the agent_assigned_id of a claim with that value.               *)
ArgObjects(agent_id) ==
    {0} \cup {i \in DOMAIN claim_data :
                 /\ claim_data[i].agent_assigned_id = Num(agent_id)
                 /\ agent_id > SmallIntMax}

get_num_closed_claims ==
    Return("num_closed", NoArgs, RNum(NumClosedClaims(claim_data)))

get_num_claims_for_claim_handler_id ==
    \E id \in ArgHandlerIds :
        Return("num_claims", Args(id, 0, 0, <<>>),
               RNum(NumClaimsForClaimHandlerId(claim_data, id)))

get_num_disasters_for_state ==
    \E state \in ArgStates :
        Return("num_disasters", Args(0, 0, 0, state),
               RNum(NumDisastersForState(disaster_data, state)))

get_total_claim_cost_for_disaster ==
    \E id \in ArgDisasterIds :
        Return("total_cost", Args(id, 0, 0, <<>>),
               TotalClaimCostForDisaster(claim_data, id))

get_average_claim_cost_for_claim_handler ==
    \E id \in ArgHandlerIds :
        Return("average_cost", Args(id, 0, 0, <<>>),
               AverageClaimCostForClaimHandler(claim_data, id))

get_state_with_most_disasters ==
    Return("most_disasters", NoArgs, StateWithMostDisasters(disaster_data))

get_state_with_least_disasters ==
    Return("least_disasters", NoArgs, StateWithLeastDisasters(disaster_data))

get_most_spoken_agent_language_by_state ==
    \E state \in ArgStates :
        Return("language", Args(0, 0, 0, state),
               MostSpokenAgentLanguageByState(agent_data, state))

get_num_of_open_claims_for_agent_and_severity ==
    \E id \in ArgAgentIds, sev \in ArgSeverities :
        \E obj \in ArgObjects(id) :
            Return("open_claims", Args(id, sev, obj, <<>>),
                   NumOfOpenClaimsForAgentAndSeverity(claim_data, id, obj, sev))

get_num_disasters_declared_after_end_date ==
    Return("declared_after_end", NoArgs,
           RNum(NumDisastersDeclaredAfterEndDate(disaster_data)))

build_map_of_agents_to_total_claim_cost ==
    Return("build_map", NoArgs, BuildMapResult(agent_data, claim_data))

calculate_disaster_claim_density ==
    \E id \in ArgDisasterIds :
        Return("density", Args(id, 0, 0, <<>>), DisasterClaimDensity(id))

get_top_three_months_with_highest_num_of_claims_desc ==
    Return("top_three_months", NoArgs, TopThreeMonths)

----------------------------------------------------------------------------
(* Loaded datasets.                                                        *)

DefaultAgent(id) == [id |-> id, state |-> Delaware, secondary_language |-> Spanish]

DefaultClaim ==
    [disaster_id |-> 1, claim_handler_assigned_id |-> 1, agent_assigned_id |-> Num(1),
     estimate_cost |-> Num(25), severity_rating |-> 5, status |-> Open]

UniqueIds(s) == \A i, j \in DOMAIN s : i # j => s[i].id # s[j].id

MapAgentIds == 1..MaxMapAgents
MapClaimAgentIds == {Absent, None, Num(1), Num(2)}
MapCosts == {Absent, None, Num(25), Num(75)}

MapClaims ==
    {[DefaultClaim EXCEPT !.agent_assigned_id = a, !.estimate_cost = c] :
        a \in MapClaimAgentIds, c \in MapCosts}

InitMap ==
    /\ agent_data \in {s \in SeqsUpTo({DefaultAgent(i) : i \in MapAgentIds}, MaxMapAgents) :
                          UniqueIds(s)}
    /\ claim_handler_data = <<>>
    /\ claim_data \in SeqsUpTo(MapClaims, MaxMapClaims)
    /\ disaster_data = <<>>
    /\ last = NoCall
    /\ watch = Unwatched

NextMap == build_map_of_agents_to_total_claim_cost

SpecMap == InitMap /\ [][NextMap]_vars

(* Claims that differ in disaster, handler and cost. *)
CostClaims ==
    {[DefaultClaim EXCEPT !.disaster_id = d, !.claim_handler_assigned_id = h,
                          !.estimate_cost = c] :
        d \in {1, 2}, h \in {1, 2}, c \in {Absent, None, Num(0), Num(25), Num(75)}}

InitCost ==
    /\ agent_data = <<>>
    /\ claim_handler_data = <<>>
    /\ claim_data \in SeqsUpTo(CostClaims, MaxCostClaims)
    /\ disaster_data = <<>>
    /\ last = NoCall
    /\ watch = Unwatched

NextCost ==
    \/ get_num_claims_for_claim_handler_id
    \/ get_total_claim_cost_for_disaster
    \/ get_average_claim_cost_for_claim_handler

SpecCost == InitCost /\ [][NextCost]_vars

(* Claims that differ in agent, severity and status. *)
OpenClaims ==
    {[DefaultClaim EXCEPT !.agent_assigned_id = a, !.severity_rating = r, !.status = st] :
        a \in {Absent, None, Num(1), Num(300)}, r \in {1, 5, 10}, st \in {Closed, Open}}

InitOpen ==
    /\ agent_data = <<>>
    /\ claim_handler_data = <<>>
    /\ claim_data \in SeqsUpTo(OpenClaims, MaxOpenClaims)
    /\ disaster_data = <<>>
    /\ last = NoCall
    /\ watch = Unwatched

NextOpen ==
    \/ get_num_closed_claims
    \/ get_num_of_open_claims_for_agent_and_severity

SpecOpen == InitOpen /\ [][NextOpen]_vars

Disaster(id, state, declared_date, end_date) ==
    [id |-> id, state |-> state, declared_date |-> declared_date, end_date |-> end_date]

Day1 == <<50, 48, 50, 51, 45, 48, 49, 45, 48, 49>>
Day2 == <<50, 48, 50, 51, 45, 48, 49, 45, 48, 50>>

(* Lists of up to n disasters, ids unique (the position), the states drawn *)
(* from States.                                                           *)
DisasterLists(States, n) ==
    UNION {{[i \in 1..k |-> Disaster(i, f[i], Day1, Day2)] : f \in [1..k -> States]} :
              k \in 0..n}

(* Lists of up to n agents, ids unique (the position). *)
AgentLists(States, Languages, n) ==
    UNION {{[i \in 1..k |-> [id |-> i, state |-> f[i][1], secondary_language |-> f[i][2]]] :
               f \in [1..k -> States \X Languages]} : k \in 0..n}

InitDisaster ==
    /\ agent_data = <<>>
    /\ claim_handler_data = <<>>
    /\ claim_data = <<>>
    /\ disaster_data \in DisasterLists({Delaware, NewJersey, NewMexico}, MaxDisasters)
    /\ last = NoCall
    /\ watch = Unwatched

NextDisaster ==
    \/ get_num_disasters_for_state
    \/ get_state_with_most_disasters
    \/ get_state_with_least_disasters

SpecDisaster == InitDisaster /\ [][NextDisaster]_vars

InitLang ==
    /\ agent_data \in AgentLists({Delaware, NewMexico}, {Spanish, French, EmptyStr},
                                 MaxLangAgents)
    /\ claim_handler_data = <<>>
    /\ claim_data = <<>>
    /\ disaster_data = <<>>
    /\ last = NoCall
    /\ watch = Unwatched

NextLang == get_most_spoken_agent_language_by_state

SpecLang == InitLang /\ [][NextLang]_vars

(* Small datasets of every kind, for the properties of all queries. *)
GenClaims ==
    {[DefaultClaim EXCEPT !.agent_assigned_id = a, !.estimate_cost = c] :
        a \in {Num(1), Num(300)}, c \in {None, Num(25)}}

Init ==
    /\ agent_data \in AgentLists({Delaware}, {Spanish}, GenMaxAgents)
    /\ claim_handler_data = <<[id |-> 1], [id |-> 2]>>
    /\ claim_data \in SeqsUpTo(GenClaims, GenMaxClaims)
    /\ disaster_data \in {<<>>, <<Disaster(1, Delaware, Day2, Day1)>>}
    /\ last = NoCall
    /\ watch = Armed

Next ==
    \/ get_num_closed_claims
    \/ get_num_claims_for_claim_handler_id
    \/ get_num_disasters_for_state
    \/ get_total_claim_cost_for_disaster
    \/ get_average_claim_cost_for_claim_handler
    \/ get_state_with_most_disasters
    \/ get_state_with_least_disasters
    \/ get_most_spoken_agent_language_by_state
    \/ get_num_of_open_claims_for_agent_and_severity
    \/ get_num_disasters_declared_after_end_date
    \/ build_map_of_agents_to_total_claim_cost
    \/ calculate_disaster_claim_density
    \/ get_top_three_months_with_highest_num_of_claims_desc

Spec == Init /\ [][Next]_vars

----------------------------------------------------------------------------
(* Properties of build_map_of_agents_to_total_claim_cost.                  *)

(* r is total / n rounded to 2 decimals: a whole number of hundredths (an *)
(* even number of units) at most half a hundredth from total / n.         *)
IsRounded(r, total, n) ==
    /\ r % 2 = 0
    /\ r * n - total <= n
    /\ total - r * n <= n

IsBuildMap == last.op = "build_map"
ReturnedMap == IsBuildMap /\ last.res.kind = "map"

AgentIdKeys == {Num(agent_data[i].id) : i \in DOMAIN agent_data}

ClaimsOf(k) == {i \in DOMAIN claim_data : GetAgentId(claim_data[i]) = k}

NullCost(i) == claim_data[i].estimate_cost.t = "None"

RECURSIVE SumCost(_)
SumCost(S) ==
    IF S = {} THEN 0
    ELSE LET i == CHOOSE x \in S : TRUE
         IN  GetCost(claim_data[i]).v + SumCost(S \ {i})

(* The ids the claim is about: an id with a claim of null cost, and an id  *)
(* a claim refers to that no agent has.                                    *)
NoDataIds ==
    {claim_data[i].agent_assigned_id : i \in
        {j \in DOMAIN claim_data :
            /\ claim_data[j].agent_assigned_id.t = "num"
            /\ \/ NullCost(j)
               \/ claim_data[j].agent_assigned_id \notin AgentIdKeys}}

(* C1: after build_map_of_agents_to_total_claim_cost, every agent id with  *)
(* a claim of null cost and every agent id of a claim that is no id of the *)
(* Agent collection is a key of the returned map with value None, whatever *)
(* claims follow the one that made it None.                                *)
C1_NoDataIdsMapToNone ==
    IsBuildMap =>
        \A k \in NoDataIds :
            /\ last.res.kind = "map"
            /\ HasKey(last.res.map, k)
            /\ Get(last.res.map, k) = None

(* C8: in the map build_map_of_agents_to_total_claim_cost returns, every   *)
(* id of the Agent collection is a key; an agent with no claim maps to 0;  *)
(* an agent whose claims all have a non-null cost maps to the sum of those *)
(* costs rounded to 2 decimals, the sum taken over the set of its claims   *)
(* (so in no particular order).                                            *)
C8_KnownAgentTotals ==
    ReturnedMap =>
        \A k \in AgentIdKeys :
            /\ HasKey(last.res.map, k)
            /\ ClaimsOf(k) = {} => Get(last.res.map, k) = Num(0)
            /\ (\A i \in ClaimsOf(k) : ~NullCost(i)) =>
                   /\ Get(last.res.map, k).t = "num"
                   /\ IsRounded(Get(last.res.map, k).v, SumCost(ClaimsOf(k)), 1)

(* An agent without claims next to an agent with three claims whose sum is *)
(* changed by the rounding.                                                *)
C8_Witness ==
    /\ ReturnedMap
    /\ \E k \in AgentIdKeys : ClaimsOf(k) = {}
    /\ \E k \in AgentIdKeys :
          /\ Cardinality(ClaimsOf(k)) >= 3
          /\ \A i \in ClaimsOf(k) : claim_data[i].estimate_cost.t = "num"
          /\ Get(last.res.map, k).v # SumCost(ClaimsOf(k))

UnknownKeys == {GetAgentId(claim_data[i]) : i \in DOMAIN claim_data} \ AgentIdKeys

(* C10: the keys of the map build_map_of_agents_to_total_claim_cost        *)
(* returns are the ids of the Agent collection and every agent_assigned_id *)
(* of a claim that is no such id (None for a claim without the field),     *)
(* each key once; every key that is no agent id has the value None.        *)
C10_KeySet ==
    ReturnedMap =>
        /\ Keys(last.res.map) = AgentIdKeys \cup UnknownKeys
        /\ Len(last.res.map) = Cardinality(Keys(last.res.map))
        /\ \A k \in UnknownKeys : Get(last.res.map, k) = None

(* A returned map with the None key of a claim without agent_assigned_id,  *)
(* a key for an unknown numeric id, and a known agent with a null cost.    *)
C10_Witness ==
    /\ ReturnedMap
    /\ \E i \in DOMAIN claim_data : claim_data[i].agent_assigned_id = Absent
    /\ \E k \in UnknownKeys : k.t = "num"
    /\ \E k \in AgentIdKeys : \E i \in ClaimsOf(k) : NullCost(i)

----------------------------------------------------------------------------
(* Properties of the cost queries.                                         *)

ClaimsOfDisaster(id) == {i \in DOMAIN claim_data : claim_data[i].disaster_id = id}

ClaimsOfHandler(id) ==
    {i \in DOMAIN claim_data : claim_data[i].claim_handler_assigned_id = id}

HasCost(i) == claim_data[i].estimate_cost.t = "num"

(* C3: with a number as the cost of every claim,                            *)
(* get_total_claim_cost_for_disaster returns None when the costs of the    *)
(* claims of the disaster sum to zero (also when it has no claim), and     *)
(* otherwise that sum rounded to 2 decimals.                               *)
C3_TotalIsRoundedSum ==
    (last.op = "total_cost" /\ \A i \in DOMAIN claim_data : HasCost(i)) =>
        LET sum == SumCost(ClaimsOfDisaster(last.args.id))
        IN  IF sum = 0 THEN last.res = RNone
            ELSE last.res.kind = "num" /\ IsRounded(last.res.num, sum, 1)

(* C9: get_average_claim_cost_for_claim_handler returns None exactly when  *)
(* get_num_claims_for_claim_handler_id is 0 for the handler; with a number *)
(* as the cost of each of the handler's claims it otherwise returns their  *)
(* sum divided by their number, rounded to 2 decimals (0 for a sum of 0).  *)
C9_AverageIsRoundedMean ==
    last.op = "average_cost" =>
        LET mine == ClaimsOfHandler(last.args.id)
        IN  /\ last.res = RNone <=>
                   NumClaimsForClaimHandlerId(claim_data, last.args.id) = 0
            /\ (mine # {} /\ \A i \in mine : HasCost(i)) =>
                   /\ last.res.kind = "num"
                   /\ IsRounded(last.res.num, SumCost(mine), Cardinality(mine))

(* The average of three claims that is no whole number of hundredths       *)
(* before it is rounded.                                                   *)
C9_Witness ==
    /\ last.op = "average_cost"
    /\ last.res.kind = "num"
    /\ Cardinality(ClaimsOfHandler(last.args.id)) = 3
    /\ last.res.num * 3 # SumCost(ClaimsOfHandler(last.args.id))

----------------------------------------------------------------------------
(* Properties of the disaster queries.                                     *)

DisasterStates == {disaster_data[i].state : i \in DOMAIN disaster_data}

CountOf(state) == Cardinality({i \in DOMAIN disaster_data : disaster_data[i].state = state})

MaxCount == Max({CountOf(st) : st \in DisasterStates})
MinCount == Min({CountOf(st) : st \in DisasterStates})

(* s is the alphabetically first state among those with n disasters. *)
FirstWithCount(s, n) ==
    /\ s \in DisasterStates
    /\ CountOf(s) = n
    /\ \A t \in DisasterStates : CountOf(t) = n => (t = s \/ StrLess(s, t))

(* C6: with at least one disaster, get_state_with_most_disasters returns   *)
(* the alphabetically first of the states with the largest number of       *)
(* disasters and get_state_with_least_disasters the alphabetically first   *)
(* of the states with the smallest number among the states that occur; the *)
(* numbers are those of the set of records, whatever their order, and      *)
(* get_num_disasters_for_state of the result is that number.               *)
C6_MostAndLeastDisasters ==
    disaster_data # <<>> =>
        /\ last.op = "most_disasters" =>
              /\ last.res.kind = "str"
              /\ FirstWithCount(last.res.str, MaxCount)
              /\ NumDisastersForState(disaster_data, last.res.str) = MaxCount
        /\ last.op = "least_disasters" =>
              /\ last.res.kind = "str"
              /\ FirstWithCount(last.res.str, MinCount)
              /\ NumDisastersForState(disaster_data, last.res.str) = MinCount

(* Two states tied for the most disasters, the first record being of the   *)
(* alphabetically later one, and a third state with fewer.                 *)
C6_Witness ==
    /\ last.op = "most_disasters"
    /\ last.res.kind = "str"
    /\ disaster_data[1].state # last.res.str
    /\ CountOf(disaster_data[1].state) = MaxCount
    /\ MinCount < MaxCount

----------------------------------------------------------------------------
(* Properties of get_most_spoken_agent_language_by_state.                  *)

AgentsOf(state) == {i \in DOMAIN agent_data : agent_data[i].state = state}

Speakers(state, lang) ==
    {i \in AgentsOf(state) : agent_data[i].secondary_language = lang}

FirstSeen(state, lang) == Min(Speakers(state, lang))

MaxSpeakers(state) ==
    Max({Cardinality(Speakers(state, agent_data[i].secondary_language)) :
            i \in AgentsOf(state)})

(* C7: get_most_spoken_agent_language_by_state returns "" when no agent    *)
(* has the state; otherwise a secondary_language spoken by the largest     *)
(* number of the state's agents, and among the languages with that number  *)
(* the one whose first agent comes first in the agent list.                *)
C7_MostSpokenLanguage ==
    last.op = "language" =>
        LET state == last.args.state
            lang == last.res.str
        IN  /\ last.res.kind = "str"
            /\ AgentsOf(state) = {} => lang = EmptyStr
            /\ AgentsOf(state) # {} =>
                  /\ Speakers(state, lang) # {}
                  /\ Cardinality(Speakers(state, lang)) = MaxSpeakers(state)
                  /\ \A i \in AgentsOf(state) :
                        Cardinality(Speakers(state, agent_data[i].secondary_language))
                            = MaxSpeakers(state)
                        => FirstSeen(state, lang)
                               <= FirstSeen(state, agent_data[i].secondary_language)

(* Two languages tied with two agents each: the result is the one seen     *)
(* first, which is alphabetically later and the second to reach two.       *)
C7_Witness ==
    /\ last.op = "language"
    /\ last.res.str = Spanish
    /\ Cardinality(Speakers(last.args.state, Spanish)) = 2
    /\ Cardinality(Speakers(last.args.state, French)) = 2
    /\ Max(Speakers(last.args.state, French)) < Max(Speakers(last.args.state, Spanish))

----------------------------------------------------------------------------
(* Properties of get_num_of_open_claims_for_agent_and_severity.            *)

OpenClaimsOf(agent_id, min_severity_rating) ==
    {i \in DOMAIN claim_data :
        /\ claim_data[i].agent_assigned_id = Num(agent_id)
        /\ claim_data[i].status # Closed
        /\ claim_data[i].severity_rating >= min_severity_rating}

(* C5: get_num_of_open_claims_for_agent_and_severity returns -1 for a      *)
(* min_severity_rating below 1 or above 10, whatever the agent id;         *)
(* otherwise the number of claims of the agent that are not "Closed" and   *)
(* have at least that severity, with None in place of 0.                   *)
C5_OpenClaimsCount ==
    last.op = "open_claims" =>
        IF last.args.sev < 1 \/ last.args.sev > 10 THEN last.res = RNum(-1)
        ELSE LET n == Cardinality(OpenClaimsOf(last.args.id, last.args.sev))
             IN  IF n = 0 THEN last.res = RNone ELSE last.res = RNum(n)

----------------------------------------------------------------------------
(* Properties of all queries.                                              *)

(* C2: every query call returns a value; none raises.                      *)
C2_NeverRaises == last.res.kind # "raise"

====
